---- MODULE Spec2Model ----
(***************************************************************************)
(* A model of the five standalone scripts of the raster workflow:          *)
(*   alignment-1.py     the Alignment Checker                              *)
(*   reproject.py       the Resampler/Reprojector                          *)
(*   process.py         the Visualization Exporter                         *)
(*   cvt2gray.py        the Template-Aligned Grayscale Converter           *)
(*   analyze_result.py  the Accuracy Analyzer                              *)
(* Each script is a linear procedure; `script` says which one runs and     *)
(* `pc` says where it is.  Calls into rasterio, numpy, PIL, scipy, sklearn *)
(* and matplotlib are modelled by their documented behaviour; a call that  *)
(* can raise is a nondeterministic choice between returning and raising.   *)
(* Real numbers are exact: a transform coefficient is an integer count of  *)
(* 1e-8 units, a statistic is a reduced fraction <<num, den>>.             *)
(***************************************************************************)
EXTENDS Integers, Sequences, FiniteSets, TLC

VARIABLES
    script,      \* which script is being run
    pc,          \* the script's position
    status,      \* "running", "ok", "handled" (except: print) or "unhandled" (traceback)
    failure,     \* what went wrong: "none", "missing_input", "shape_mismatch", "library"
    stdout,      \* the sequence of printed messages, [tag, val]
    disk,        \* the set of output files written so far
    fs,          \* the input files of the script
    sat_src, bathy_src, crs_match, transform_match, shape_match,   \* alignment-1.py
    master_profile, aligned_array, mapped,                         \* reproject.py
    raw_data, clipped_data, scaled_data, rgb_data_uint8,           \* process.py
    target_shape, grayscale_img, aligned_img,                      \* cvt2gray.py
    predicted_array, truth_array, nodata_value, mask,              \* analyze_result.py
    predicted_flat, truth_flat, results, plotdata

commonVars  == <<script, pc, status, failure, stdout, disk, fs>>
alignVars   == <<sat_src, bathy_src, crs_match, transform_match, shape_match>>
reprojVars  == <<master_profile, aligned_array, mapped>>
processVars == <<raw_data, clipped_data, scaled_data, rgb_data_uint8>>
cvtVars     == <<target_shape, grayscale_img, aligned_img>>
loadVars    == <<predicted_array, truth_array, nodata_value, mask, predicted_flat, truth_flat>>
analyzeVars == <<loadVars, results, plotdata>>
vars == <<commonVars, alignVars, reprojVars, processVars, cvtVars, analyzeVars>>

None == "None"

\* a dataset's nodata attribute: None, or the declared value
NoData == <<>>
Declared(v) == <<v>>
NoFile == [exists |-> FALSE, valid |-> FALSE]

Abs(x) == IF x < 0 THEN -x ELSE x

Msg(tag, val) == [tag |-> tag, val |-> val]

\* print(...) appends one message to standard output
Print_(out, tag, val) == Append(out, Msg(tag, val))

Printed(tag) == \E i \in DOMAIN stdout : stdout[i].tag = tag

PrintedWith(tag, val) == \E i \in DOMAIN stdout : stdout[i].tag = tag /\ stdout[i].val = val

\* the values every script starts from, before its own inputs are drawn
InitCommon(s) ==
    /\ script = s
    /\ pc = "start"
    /\ status = "running"
    /\ failure = "none"
    /\ stdout = <<>>
    /\ disk = {}

InitAlignVars ==
    /\ sat_src = None /\ bathy_src = None
    /\ crs_match = FALSE /\ transform_match = FALSE /\ shape_match = FALSE

InitReprojVars == master_profile = None /\ aligned_array = <<>> /\ mapped = {}

InitProcessVars ==
    raw_data = <<>> /\ clipped_data = <<>> /\ scaled_data = <<>> /\ rgb_data_uint8 = <<>>

InitCvtVars == target_shape = <<>> /\ grayscale_img = None /\ aligned_img = None

InitAnalyzeVars ==
    /\ predicted_array = <<>> /\ truth_array = <<>> /\ nodata_value = NoData /\ mask = <<>>
    /\ predicted_flat = <<>> /\ truth_flat = <<>> /\ results = None /\ plotdata = {}

-----------------------------------------------------------------------------
(* alignment-1.py *)

CRSs == {"EPSG:4326", "EPSG:32617"}

\* pixel sizes and origins in 1e-8 units: 10.0, 10.0 + 1.0001e-4, 10.0 + 1.0002e-4; 0, 1e-8, 2e-8
PixelSizes == {1000000000, 1000010001, 1000010002}
Origins == {0, 1, 2}

\* Affine(a, b, c, d, e, f): a north-up grid of square pixels
Transforms == {<<a, 0, c, 0, -a, 0>> : a \in PixelSizes, c \in Origins}

AlignShapes == {<<2, 3>>, <<3, 2>>}

AlignRasters == [exists : {TRUE}, crs : CRSs, transform : Transforms, shape : AlignShapes]

\* numpy's defaults: atol = 1e-8 (one unit), rtol = 1e-5 (one part in RtolInv)
Atol == 1
RtolInv == 100000

\* a relative tolerance alone, without the absolute term
IsClose_RelativeOnly(a, b) == Abs(a - b) * RtolInv <= Abs(b)

IsClose(a, b) == Abs(a - b) * RtolInv <= Atol * RtolInv + Abs(b)

AllClose(a, b) == \A i \in DOMAIN a : IsClose(a[i], b[i])

InitAlignment ==
    /\ InitCommon("alignment")
    /\ fs \in [sat : AlignRasters \cup {NoFile}, bathy : AlignRasters \cup {NoFile}]
    /\ InitAlignVars /\ InitReprojVars /\ InitProcessVars /\ InitCvtVars /\ InitAnalyzeVars

\* lines 11-13 and 43-44: both files open, or the failure is printed
AlignOpen ==
    /\ script = "alignment" /\ pc = "start"
    /\ IF fs.sat.exists /\ fs.bathy.exists
       THEN /\ sat_src' = fs.sat
            /\ bathy_src' = fs.bathy
            /\ pc' = "crs"
            /\ UNCHANGED <<status, failure, stdout>>
       ELSE /\ pc' = "done"
            /\ status' = "handled"
            /\ failure' = "library"
            /\ stdout' = Print_(stdout, "error", <<"open">>)
            /\ UNCHANGED <<sat_src, bathy_src>>
    /\ UNCHANGED <<script, disk, fs, crs_match, transform_match, shape_match>>
    /\ UNCHANGED <<reprojVars, processVars, cvtVars, analyzeVars>>

CrsEq(a, b) == a.crs = b.crs

\* lines 16-20
AlignCheckCRS ==
    /\ script = "alignment" /\ pc = "crs"
    /\ LET m == CrsEq(sat_src, bathy_src)
           o == Print_(stdout, "crs_match", <<m>>)
       IN  /\ crs_match' = m
           /\ stdout' = IF m THEN o
                        ELSE Print_(Print_(o, "sat_crs", <<sat_src.crs>>),
                                    "bathy_crs", <<bathy_src.crs>>)
    /\ pc' = "transform"
    /\ UNCHANGED <<script, status, failure, disk, fs>>
    /\ UNCHANGED <<sat_src, bathy_src, transform_match, shape_match>>
    /\ UNCHANGED <<reprojVars, processVars, cvtVars, analyzeVars>>

TransformEq(a, b) == AllClose(a.transform, b.transform)

\* lines 24-28
AlignCheckTransform ==
    /\ script = "alignment" /\ pc = "transform"
    /\ LET m == TransformEq(sat_src, bathy_src)
           o == Print_(stdout, "transform_match", <<m>>)
       IN  /\ transform_match' = m
           /\ stdout' = IF m THEN o
                        ELSE Print_(Print_(o, "sat_transform", <<sat_src.transform>>),
                                    "bathy_transform", <<bathy_src.transform>>)
    /\ pc' = "shape"
    /\ UNCHANGED <<script, status, failure, disk, fs>>
    /\ UNCHANGED <<sat_src, bathy_src, crs_match, shape_match>>
    /\ UNCHANGED <<reprojVars, processVars, cvtVars, analyzeVars>>

ShapeEq(a, b) == a.shape = b.shape

\* lines 31-35
AlignCheckShape ==
    /\ script = "alignment" /\ pc = "shape"
    /\ LET m == ShapeEq(sat_src, bathy_src)
           o == Print_(stdout, "shape_match", <<m>>)
       IN  /\ shape_match' = m
           /\ stdout' = IF m THEN o
                        ELSE Print_(Print_(o, "sat_shape", <<sat_src.shape>>),
                                    "bathy_shape", <<bathy_src.shape>>)
    /\ pc' = "verdict"
    /\ UNCHANGED <<script, status, failure, disk, fs>>
    /\ UNCHANGED <<sat_src, bathy_src, crs_match, transform_match>>
    /\ UNCHANGED <<reprojVars, processVars, cvtVars, analyzeVars>>

\* lines 37-41
AlignVerdict ==
    /\ script = "alignment" /\ pc = "verdict"
    /\ stdout' = IF crs_match /\ transform_match /\ shape_match
                 THEN Print_(stdout, "aligned", <<>>)
                 ELSE Print_(stdout, "not_aligned", <<>>)
    /\ pc' = "done"
    /\ status' = "ok"
    /\ UNCHANGED <<script, failure, disk, fs>>
    /\ UNCHANGED <<alignVars, reprojVars, processVars, cvtVars, analyzeVars>>

NextAlignment ==
    \/ AlignOpen
    \/ AlignCheckCRS
    \/ AlignCheckTransform
    \/ AlignCheckShape
    \/ AlignVerdict

SpecAlignment == InitAlignment /\ [][NextAlignment]_vars

-----------------------------------------------------------------------------
(* reproject.py *)

\* line 13
OUTPUT_NODATA_VALUE == -9999

ALIGNED_BATHY_PATH == "bathymetry_aligned.tif"

\* the largest reference grid the model draws
MaxWidth == 2
MaxHeight == 2

MasterRasters ==
    [exists : {TRUE}, crs : CRSs, transform : {<<1000000000, 0, c, 0, -1000000000, 0>> : c \in {0, 2}},
     width : 1..MaxWidth, height : 1..MaxHeight, count : {1, 3},
     nodata : {NoData, Declared(0)}, dtype : {"uint16"}]

\* the source raster: its grid and the depth its band 1 holds
SlaveRasters ==
    [exists : {TRUE}, crs : CRSs, transform : {<<200000000, 0, 0, 0, -200000000, 0>>},
     count : {1}, depth : {-5}]

InitReproject ==
    /\ InitCommon("reproject")
    /\ fs \in [master : MasterRasters \cup {NoFile}, slave : SlaveRasters \cup {NoFile}]
    /\ InitAlignVars /\ InitReprojVars /\ InitProcessVars /\ InitCvtVars /\ InitAnalyzeVars

\* lines 20-23: read from the open reference dataset
master_crs == fs.master.crs
master_transform == fs.master.transform
master_width == fs.master.width
master_height == fs.master.height

Pixels(height, width) == (1..height) \X (1..width)

\* master.profile (line 19)
Profile(ds) ==
    [driver |-> "GTiff", dtype |-> ds.dtype, nodata |-> ds.nodata, width |-> ds.width,
     height |-> ds.height, count |-> ds.count, crs |-> ds.crs, transform |-> ds.transform]

\* a failure nothing catches: the traceback ends the script
Unhandled ==
    /\ pc' = "done"
    /\ status' = "unhandled"
    /\ failure' = "library"

\* lines 18-23
ReprojOpenMaster ==
    /\ script = "reproject" /\ pc = "start"
    /\ IF fs.master.exists
       THEN /\ master_profile' = Profile(fs.master)
            /\ pc' = "open_slave"
            /\ UNCHANGED <<status, failure>>
       ELSE /\ Unhandled
            /\ UNCHANGED master_profile
    /\ UNCHANGED <<script, stdout, disk, fs, aligned_array, mapped>>
    /\ UNCHANGED <<alignVars, processVars, cvtVars, analyzeVars>>

\* np.full((master_height, master_width), OUTPUT_NODATA_VALUE) (line 28)
Full(height, width, fill) == [p \in Pixels(height, width) |-> fill]

\* lines 26-28
ReprojOpenSlave ==
    /\ script = "reproject" /\ pc = "open_slave"
    /\ IF fs.slave.exists
       THEN /\ aligned_array' = Full(master_height, master_width, OUTPUT_NODATA_VALUE)
            /\ pc' = "reproject"
            /\ UNCHANGED <<status, failure>>
       ELSE /\ Unhandled
            /\ UNCHANGED aligned_array
    /\ UNCHANGED <<script, stdout, disk, fs, master_profile, mapped>>
    /\ UNCHANGED <<alignVars, processVars, cvtVars, analyzeVars>>

\* rasterio.warp.reproject: the destination pixels whose back-mapped location lies in
\* the source (the set m) get the interpolated source value, the others dst_nodata
Warp(dest, m, src, dst_nodata) ==
    [p \in DOMAIN dest |-> IF p \in m THEN src.depth ELSE dst_nodata]

\* lines 31-41
ReprojReproject ==
    /\ script = "reproject" /\ pc = "reproject"
    /\ \/ \E m \in SUBSET (DOMAIN aligned_array) :
            /\ aligned_array' = Warp(aligned_array, m, fs.slave, OUTPUT_NODATA_VALUE)
            /\ mapped' = m
            /\ pc' = "update"
            /\ UNCHANGED <<status, failure>>
       \/ /\ Unhandled
          /\ UNCHANGED <<aligned_array, mapped>>
    /\ UNCHANGED <<script, stdout, disk, fs, master_profile>>
    /\ UNCHANGED <<alignVars, processVars, cvtVars, analyzeVars>>

\* the update without the nodata entry: the reference's own nodata is kept
UpdateProfile_NoNodata(profile) == [profile EXCEPT !.dtype = "float32", !.count = 1]

\* master_profile.update(dtype=np.float32, count=1, nodata=OUTPUT_NODATA_VALUE)
UpdateProfile(profile) ==
    [profile EXCEPT !.dtype = "float32", !.count = 1, !.nodata = Declared(OUTPUT_NODATA_VALUE)]

\* lines 45-49
ReprojUpdateProfile ==
    /\ script = "reproject" /\ pc = "update"
    /\ master_profile' = UpdateProfile(master_profile)
    /\ pc' = "write"
    /\ UNCHANGED <<script, status, failure, stdout, disk, fs, aligned_array, mapped>>
    /\ UNCHANGED <<alignVars, processVars, cvtVars, analyzeVars>>

\* lines 53-54
ReprojWrite ==
    /\ script = "reproject" /\ pc = "write"
    /\ \/ /\ disk' = disk \cup {[path |-> ALIGNED_BATHY_PATH, profile |-> master_profile,
                                 data |-> aligned_array]}
          /\ pc' = "success"
          /\ UNCHANGED <<status, failure>>
       \/ /\ Unhandled
          /\ UNCHANGED disk
    /\ UNCHANGED <<script, stdout, fs, reprojVars>>
    /\ UNCHANGED <<alignVars, processVars, cvtVars, analyzeVars>>

\* lines 56-59
ReprojSuccess ==
    /\ script = "reproject" /\ pc = "success"
    /\ stdout' = Print_(stdout, "success", <<ALIGNED_BATHY_PATH>>)
    /\ pc' = "done"
    /\ status' = "ok"
    /\ UNCHANGED <<script, failure, disk, fs, reprojVars>>
    /\ UNCHANGED <<alignVars, processVars, cvtVars, analyzeVars>>

NextReproject ==
    \/ ReprojOpenMaster
    \/ ReprojOpenSlave
    \/ ReprojReproject
    \/ ReprojUpdateProfile
    \/ ReprojWrite
    \/ ReprojSuccess

SpecReproject == InitReproject /\ [][NextReproject]_vars

-----------------------------------------------------------------------------
(* process.py *)

\* lines 30-31
min_val == 0
max_val == 1500

output_png_path == "output_rgb_image_for_model.png"

\* the samples the model draws: every SampleStride-th value and the one below it, from
\* SampleMargin below the clip range to SampleMargin above it, and the two values next
\* to the clip bounds
SampleStride == 100
SampleMargin == 600

Samples ==
    {x \in (min_val - SampleMargin)..(max_val + SampleMargin) :
        x % SampleStride \in {0, SampleStride - 1}} \cup {min_val - 1, max_val + 1}

\* dataset.read(): band-major, one pixel per band
BandPixels == Pixels(1, 1)

ProcessRasters ==
    UNION {[exists : {TRUE}, count : {n}, data : [1..n -> [BandPixels -> Samples]]] : n \in {1, 3}}

InitProcess ==
    /\ InitCommon("process")
    /\ fs \in [input : ProcessRasters \cup {NoFile}]
    /\ InitAlignVars /\ InitReprojVars /\ InitProcessVars /\ InitCvtVars /\ InitAnalyzeVars

\* an exception the script's except clause catches and prints
Handled(kind, what) ==
    /\ pc' = "done"
    /\ status' = "handled"
    /\ failure' = kind
    /\ stdout' = Print_(stdout, "error", <<what>>)

\* lines 15-24 and 72-73; rasterio reports a missing file as RasterioIOError, which the
\* except Exception clause catches
ProcRead ==
    /\ script = "process" /\ pc = "start"
    /\ IF fs.input.exists
       THEN /\ raw_data' = fs.input.data
            /\ pc' = "stretch"
            /\ UNCHANGED <<status, failure, stdout>>
       ELSE /\ Handled("library", "open")
            /\ UNCHANGED raw_data
    /\ UNCHANGED <<script, disk, fs, clipped_data, scaled_data, rgb_data_uint8>>
    /\ UNCHANGED <<alignVars, reprojVars, cvtVars, analyzeVars>>

\* np.clip(x, lo, hi) on one sample
Clip(x, lo, hi) == IF x < lo THEN lo ELSE IF x > hi THEN hi ELSE x

\* ((x - min_val) / (max_val - min_val)) * 255 on one sample, as the fraction <<num, den>>
Scale(x) == <<(x - min_val) * 255, max_val - min_val>>

\* astype(np.uint8) on one sample: truncate toward zero, keep the low eight bits
AsUint8(q) ==
    LET t == IF q[1] >= 0 THEN q[1] \div q[2] ELSE -((-q[1]) \div q[2])
    IN  t % 256

\* the clip left out
ClipSample_None(x) == x

ClipSample(x) == Clip(x, min_val, max_val)

\* the three element-wise steps on a band-major array
ClipData(a) == [b \in DOMAIN a |-> [p \in DOMAIN a[b] |-> ClipSample(a[b][p])]]
ScaleData(a) == [b \in DOMAIN a |-> [p \in DOMAIN a[b] |-> Scale(a[b][p])]]
Uint8Data(a) == [b \in DOMAIN a |-> [p \in DOMAIN a[b] |-> AsUint8(a[b][p])]]

\* lines 30-47
ProcStretch ==
    /\ script = "process" /\ pc = "stretch"
    /\ clipped_data' = ClipData(raw_data)
    /\ scaled_data' = ScaleData(clipped_data')
    /\ rgb_data_uint8' = Uint8Data(scaled_data')
    /\ pc' = "save"
    /\ UNCHANGED <<script, status, failure, stdout, disk, fs, raw_data>>
    /\ UNCHANGED <<alignVars, reprojVars, cvtVars, analyzeVars>>

\* np.transpose(a, (1, 2, 0)): band-major to pixel-major
Transpose(a) == [p \in BandPixels |-> [b \in DOMAIN a |-> a[b][p]]]

\* lines 54-63 and 72-73: Image.fromarray takes three channels; image.save may fail
ProcSave ==
    /\ script = "process" /\ pc = "save"
    /\ \/ /\ Len(rgb_data_uint8) = 3
          /\ disk' = disk \cup {[path |-> output_png_path, mode |-> "RGB",
                                 data |-> Transpose(rgb_data_uint8)]}
          /\ pc' = "success"
          /\ UNCHANGED <<status, failure, stdout>>
       \/ /\ Len(rgb_data_uint8) # 3
          /\ Handled("library", "fromarray")
          /\ UNCHANGED disk
       \/ /\ Len(rgb_data_uint8) = 3
          /\ Handled("library", "save")
          /\ UNCHANGED disk
    /\ UNCHANGED <<script, fs, processVars>>
    /\ UNCHANGED <<alignVars, reprojVars, cvtVars, analyzeVars>>

\* lines 65-68
ProcSuccess ==
    /\ script = "process" /\ pc = "success"
    /\ stdout' = Print_(stdout, "success", <<output_png_path>>)
    /\ pc' = "done"
    /\ status' = "ok"
    /\ UNCHANGED <<script, failure, disk, fs, processVars>>
    /\ UNCHANGED <<alignVars, reprojVars, cvtVars, analyzeVars>>

NextProcess ==
    \/ ProcRead
    \/ ProcStretch
    \/ ProcSave
    \/ ProcSuccess

SpecProcess == InitProcess /\ [][NextProcess]_vars

-----------------------------------------------------------------------------
(* cvt2gray.py *)

\* line 16
OUTPUT_ALIGNED_GRAYSCALE_PATH == "gpt-output.png"

\* a file that is there and that the library cannot read
Corrupt == [exists |-> TRUE, valid |-> FALSE]

\* rasterio's shape is (rows, columns); PIL's size is (width, height)
TemplateRasters ==
    [exists : {TRUE}, valid : {TRUE}, shape : (1..MaxHeight) \X (1..MaxWidth)]

GeneratedImages ==
    [exists : {TRUE}, valid : {TRUE}, mode : {"RGB", "L"}, size : (1..MaxWidth) \X (1..MaxHeight)]

InitCvt2gray ==
    /\ InitCommon("cvt2gray")
    /\ fs \in [generated : GeneratedImages \cup {NoFile, Corrupt},
               template : TemplateRasters \cup {NoFile, Corrupt}]
    /\ InitAlignVars /\ InitReprojVars /\ InitProcessVars /\ InitCvtVars /\ InitAnalyzeVars

\* lines 24-27: the raise is outside the try, and line 64 calls the function bare
CvtCheckExists ==
    /\ script = "cvt2gray" /\ pc = "start"
    /\ IF fs.generated.exists /\ fs.template.exists
       THEN /\ pc' = "template"
            /\ UNCHANGED <<status, failure>>
       ELSE /\ pc' = "done"
            /\ status' = "unhandled"
            /\ failure' = "missing_input"
    /\ UNCHANGED <<script, stdout, disk, fs>>
    /\ UNCHANGED <<alignVars, reprojVars, processVars, cvtVars, analyzeVars>>

\* lines 31-33 and 59-60
CvtReadTemplate ==
    /\ script = "cvt2gray" /\ pc = "template"
    /\ IF fs.template.valid
       THEN /\ target_shape' = fs.template.shape
            /\ stdout' = Print_(stdout, "target_shape", <<fs.template.shape>>)
            /\ pc' = "convert"
            /\ UNCHANGED <<status, failure>>
       ELSE /\ Handled("library", "open")
            /\ UNCHANGED target_shape
    /\ UNCHANGED <<script, disk, fs, grayscale_img, aligned_img>>
    /\ UNCHANGED <<alignVars, reprojVars, processVars, analyzeVars>>

\* img.convert('L'): one channel, the same size
Convert(img, mode) == [mode |-> mode, size |-> img.size]

\* lines 36-40 and 59-60
CvtConvert ==
    /\ script = "cvt2gray" /\ pc = "convert"
    /\ IF fs.generated.valid
       THEN /\ grayscale_img' = Convert(fs.generated, "L")
            /\ stdout' = Print_(stdout, "original_size", <<fs.generated.size>>)
            /\ pc' = "resize"
            /\ UNCHANGED <<status, failure>>
       ELSE /\ Handled("library", "open")
            /\ UNCHANGED grayscale_img
    /\ UNCHANGED <<script, disk, fs, target_shape, aligned_img>>
    /\ UNCHANGED <<alignVars, reprojVars, processVars, analyzeVars>>

\* rasterio's (rows, columns) passed on as PIL's (width, height)
TargetSizePil_Unswapped(shape) == <<shape[1], shape[2]>>

\* line 44
TargetSizePil(shape) == <<shape[2], shape[1]>>

\* img.resize(size, LANCZOS): the same mode, the size asked for
Resize(img, size) == [mode |-> img.mode, size |-> size]

\* lines 44-49
CvtResize ==
    /\ script = "cvt2gray" /\ pc = "resize"
    /\ aligned_img' = Resize(grayscale_img, TargetSizePil(target_shape))
    /\ stdout' = Print_(stdout, "resized", <<aligned_img'.size>>)
    /\ pc' = "save"
    /\ UNCHANGED <<script, status, failure, disk, fs, target_shape, grayscale_img>>
    /\ UNCHANGED <<alignVars, reprojVars, processVars, analyzeVars>>

\* lines 52 and 59-60
CvtSave ==
    /\ script = "cvt2gray" /\ pc = "save"
    /\ \/ /\ disk' = disk \cup {[path |-> OUTPUT_ALIGNED_GRAYSCALE_PATH,
                                 mode |-> aligned_img.mode, size |-> aligned_img.size]}
          /\ pc' = "success"
          /\ UNCHANGED <<status, failure, stdout>>
       \/ /\ Handled("library", "save")
          /\ UNCHANGED disk
    /\ UNCHANGED <<script, fs, cvtVars>>
    /\ UNCHANGED <<alignVars, reprojVars, processVars, analyzeVars>>

\* lines 54-57
CvtSuccess ==
    /\ script = "cvt2gray" /\ pc = "success"
    /\ stdout' = Print_(stdout, "success", <<OUTPUT_ALIGNED_GRAYSCALE_PATH>>)
    /\ pc' = "done"
    /\ status' = "ok"
    /\ UNCHANGED <<script, failure, disk, fs, cvtVars>>
    /\ UNCHANGED <<alignVars, reprojVars, processVars, analyzeVars>>

NextCvt2gray ==
    \/ CvtCheckExists
    \/ CvtReadTemplate
    \/ CvtConvert
    \/ CvtResize
    \/ CvtSave
    \/ CvtSuccess

SpecCvt2gray == InitCvt2gray /\ [][NextCvt2gray]_vars

-----------------------------------------------------------------------------
(* analyze_result.py: load_and_prepare_data *)

\* the largest raster the analysis pipeline reads, in pixels
MaxPixels == 2

AnalyzeShapes == {s \in (1..MaxPixels) \X (1..MaxPixels) : s[1] * s[2] <= MaxPixels}

\* the predicted PNG holds 8-bit values, the ground truth depths
PredValues == {0, 1, 128, 255}
TruthValues == {0, 5, 10}

PredictedRasters == [exists : {TRUE}, valid : {TRUE}, shape : AnalyzeShapes]

TruthRasters ==
    [exists : {TRUE}, valid : {TRUE}, shape : AnalyzeShapes,
     nodata : {NoData, Declared(OUTPUT_NODATA_VALUE)}]

\* the values a band of the ground truth holds: depths, and the sentinel where one is declared
TruthSamples(nodata) == TruthValues \cup {nodata[i] : i \in DOMAIN nodata}

InitAnalyze ==
    /\ InitCommon("analyze")
    /\ fs \in [predicted : PredictedRasters \cup {NoFile, Corrupt},
               truth : TruthRasters \cup {NoFile, Corrupt}]
    /\ InitAlignVars /\ InitReprojVars /\ InitProcessVars /\ InitCvtVars /\ InitAnalyzeVars

\* main's two except clauses (lines 150-153): what is raised is printed, under tag
Caught(out, tag, kind, what) ==
    /\ pc' = "done"
    /\ status' = "handled"
    /\ failure' = kind
    /\ stdout' = Print_(out, tag, <<what>>)

\* line 22
FilesMissing(predicted, truth) == ~predicted.exists \/ ~truth.exists

\* only the row counts compared
ShapeMismatch_RowsOnly(pred_src, truth_src) == pred_src.shape[1] # truth_src.shape[1]

\* line 26
ShapeMismatch(pred_src, truth_src) == pred_src.shape # truth_src.shape

\* the comparison inverted: true at the no-data pixels
ValidMask_Inverted(truth, nodata) ==
    [p \in DOMAIN truth |-> IF nodata # NoData THEN truth[p] = nodata[1] ELSE TRUE]

\* lines 33-36: truth_array != nodata_value, or np.ones_like(truth_array, dtype=bool)
ValidMask(truth, nodata) ==
    [p \in DOMAIN truth |-> IF nodata # NoData THEN truth[p] # nodata[1] ELSE TRUE]

\* the pixels of a (rows, columns) array in C order
RowMajor(shape) ==
    [i \in 1..(shape[1] * shape[2]) |-> <<((i - 1) \div shape[2]) + 1, ((i - 1) % shape[2]) + 1>>]

\* a[m] for a boolean array m: the elements of a where m is true, in C order
BoolIndex(a, m, shape) ==
    LET sel == SelectSeq(RowMajor(shape), LAMBDA p : m[p])
    IN  [i \in 1..Len(sel) |-> a[sel[i]]]

\* lines 19-42, with main's handlers
load_and_prepare_data ==
    /\ script = "analyze" /\ pc = "start"
    /\ LET out == Print_(stdout, "loading", <<>>)
       IN  IF FilesMissing(fs.predicted, fs.truth)
           THEN /\ Caught(out, "error", "missing_input", "not_found")
                /\ UNCHANGED loadVars
           ELSE IF ~fs.predicted.valid \/ ~fs.truth.valid
           THEN /\ Caught(out, "unexpected", "library", "open")
                /\ UNCHANGED loadVars
           ELSE IF ShapeMismatch(fs.predicted, fs.truth)
           THEN /\ Caught(out, "error", "shape_mismatch", "shape")
                /\ UNCHANGED loadVars
           ELSE \E pa \in [Pixels(fs.predicted.shape[1], fs.predicted.shape[2]) -> PredValues],
                   ta \in [Pixels(fs.truth.shape[1], fs.truth.shape[2])
                              -> TruthSamples(fs.truth.nodata)] :
                    LET m == ValidMask(ta, fs.truth.nodata)
                    IN  IF DOMAIN pa # DOMAIN m
                        THEN \* boolean index did not match the indexed array
                             /\ Caught(out, "unexpected", "library", "index")
                             /\ UNCHANGED loadVars
                        ELSE /\ predicted_array' = pa
                             /\ truth_array' = ta
                             /\ nodata_value' = fs.truth.nodata
                             /\ mask' = m
                             /\ predicted_flat' = BoolIndex(pa, m, fs.truth.shape)
                             /\ truth_flat' = BoolIndex(ta, m, fs.truth.shape)
                             /\ stdout' = Print_(out, "loaded", <<Len(truth_flat')>>)
                             /\ pc' = "analysis"
                             /\ UNCHANGED <<status, failure>>
    /\ UNCHANGED <<script, disk, fs, results, plotdata>>
    /\ UNCHANGED <<alignVars, reprojVars, processVars, cvtVars>>

-----------------------------------------------------------------------------
(* analyze_result.py: perform_quantitative_analysis *)
(* The statistics are exact fractions; the floating-point values the       *)
(* libraries return agree with them up to rounding.  A square root is kept *)
(* as its square: Pearson R as its sign and R^2, RMSE as the mean squared  *)
(* residual.  The p-value is not modelled.                                 *)

RECURSIVE Gcd(_, _)
Gcd(a, b) == IF b = 0 THEN a ELSE Gcd(b, a % b)

\* the fraction n/d in lowest terms with a positive denominator
Frac(n, d) ==
    LET g == Gcd(Abs(n), Abs(d))
        sg == IF d < 0 THEN -1 ELSE 1
    IN  <<(sg * n) \div g, (sg * d) \div g>>

Sign(n) == IF n > 0 THEN 1 ELSE IF n < 0 THEN -1 ELSE 0

RECURSIVE SumSeq(_)
SumSeq(q) == IF q = <<>> THEN 0 ELSE Head(q) + SumSeq(Tail(q))

Products(x, y) == [i \in DOMAIN x |-> x[i] * y[i]]

\* n times the centred cross product: n * sum(x*y) - sum(x) * sum(y)
Cross(x, y) == Len(x) * SumSeq(Products(x, y)) - SumSeq(x) * SumSeq(y)

NaN == [defined |-> FALSE, sign |-> 0, sq |-> <<0, 1>>]

\* scipy.stats.pearsonr(x, y) for len(x) >= 2: nan for a constant input
PearsonR(x, y) ==
    IF Cross(x, x) = 0 \/ Cross(y, y) = 0
    THEN NaN
    ELSE [defined |-> TRUE, sign |-> Sign(Cross(x, y)),
          sq |-> Frac(Cross(x, y) * Cross(x, y), Cross(x, x) * Cross(y, y))]

\* the regression of x on y instead of y on x
Slope_Swapped(x, y) == IF Cross(y, y) = 0 THEN <<0, 1>> ELSE Frac(Cross(x, y), Cross(y, y))

\* LinearRegression().fit(X, y).coef_[0]: the least-squares slope, 0 for a constant X
Slope(x, y) == IF Cross(x, x) = 0 THEN <<0, 1>> ELSE Frac(Cross(x, y), Cross(x, x))

\* the mean of y, without the slope's share
Intercept_MeanOnly(x, y) == Frac(SumSeq(y), Len(x))

\* LinearRegression().fit(X, y).intercept_: mean(y) - slope * mean(x)
Intercept(x, y) ==
    IF Cross(x, x) = 0
    THEN Frac(SumSeq(y), Len(x))
    ELSE Frac(SumSeq(y) * Cross(x, x) - Cross(x, y) * SumSeq(x), Len(x) * Cross(x, x))

\* the residuals y - (m*x + c) over their common denominator
ResidualDen(x) == IF Cross(x, x) = 0 THEN Len(x) ELSE Len(x) * Cross(x, x)

ResidualNum(x, y) ==
    IF Cross(x, x) = 0
    THEN [i \in DOMAIN x |-> Len(x) * y[i] - SumSeq(y)]
    ELSE [i \in DOMAIN x |->
            Cross(x, x) * (Len(x) * y[i] - SumSeq(y)) - Cross(x, y) * (Len(x) * x[i] - SumSeq(x))]

\* reg.predict(X): m*x + c
Predict(x, y) ==
    [i \in DOMAIN x |-> Frac(y[i] * ResidualDen(x) - ResidualNum(x, y)[i], ResidualDen(x))]

\* mean_squared_error(y, m*x + c): for the least-squares line the squared residuals
\* sum to (Cxx*Cyy - Cxy^2) / (n*Cxx)
MeanSquaredError(x, y) ==
    IF Cross(x, x) = 0
    THEN Frac(Cross(y, y), Len(x) * Len(x))
    ELSE Frac(Cross(x, x) * Cross(y, y) - Cross(x, y) * Cross(x, y),
              Len(x) * Len(x) * Cross(x, x))

\* mean_absolute_error(y, m*x + c)
MeanAbsoluteError(x, y) ==
    Frac(SumSeq([i \in DOMAIN x |-> Abs(ResidualNum(x, y)[i])]), Len(x) * ResidualDen(x))

\* lines 48-60
Results(x, y) ==
    [R |-> PearsonR(x, y), slope |-> Slope(x, y), intercept |-> Intercept(x, y),
     mse |-> MeanSquaredError(x, y), mae |-> MeanAbsoluteError(x, y),
     calibrated |-> Predict(x, y)]

\* lines 44-63; pearsonr raises ValueError for fewer than two values
perform_quantitative_analysis ==
    /\ script = "analyze" /\ pc = "analysis"
    /\ LET out == Print_(stdout, "analysis", <<>>)
       IN  IF Len(predicted_flat) < 2
           THEN /\ Caught(out, "error", "library", "pearsonr")
                /\ UNCHANGED results
           ELSE /\ results' = Results(predicted_flat, truth_flat)
                /\ stdout' = Print_(out, "analysis_complete", <<>>)
                /\ pc' = "report"
                /\ UNCHANGED <<status, failure>>
    /\ UNCHANGED <<script, disk, fs, loadVars, plotdata>>
    /\ UNCHANGED <<alignVars, reprojVars, processVars, cvtVars>>

\* the largest analysis population the statistics are checked on
MaxPop == 3

Populations(n) == [1..n -> PredValues] \X [1..n -> TruthValues]

\* perform_quantitative_analysis on its own: any two sequences of one length
InitStats ==
    /\ script = "analyze"
    /\ pc = "analysis"
    /\ status = "running"
    /\ failure = "none"
    /\ stdout = <<>>
    /\ disk = {}
    /\ fs = [predicted |-> NoFile, truth |-> NoFile]
    /\ InitAlignVars /\ InitReprojVars /\ InitProcessVars /\ InitCvtVars
    /\ predicted_array = <<>> /\ truth_array = <<>> /\ nodata_value = NoData /\ mask = <<>>
    /\ results = None /\ plotdata = {}
    /\ \E n \in 0..MaxPop : \E xy \in Populations(n) :
            predicted_flat = xy[1] /\ truth_flat = xy[2]

SpecStats == InitStats /\ [][perform_quantitative_analysis]_vars

-----------------------------------------------------------------------------
(* analyze_result.py: save_report, create_visualizations, main *)

\* line 69
REPORT_PATH == "analysis_report.txt"

\* lines 100, 113, 126, 138: the file each plot is saved to
PlotPath(k) ==
    CASE k = 1 -> "comparison_side_by_side.png"
      [] k = 2 -> "density_scatter_plot.png"
      [] k = 3 -> "error_map.png"
      [] k = 4 -> "error_histogram.png"

\* the error map drawn before its values are computed
PlotComputes_Late(k) ==
    CASE k = 1 -> {"truth_masked"}
      [] k = 2 -> {}
      [] k = 3 -> {}
      [] k = 4 -> {"error_map", "error_masked", "vmax", "errors"}

\* lines 91, 118-121, 131: what each plot computes before it is drawn
PlotComputes(k) ==
    CASE k = 1 -> {"truth_masked"}
      [] k = 2 -> {}
      [] k = 3 -> {"error_map", "error_masked", "vmax"}
      [] k = 4 -> {"errors"}

\* lines 65-82: the report is written, or the failure reaches main's except Exception
save_report ==
    /\ script = "analyze" /\ pc = "report"
    /\ LET out == Print_(stdout, "saving_report", <<>>)
       IN  \/ /\ disk' = disk \cup {[path |-> REPORT_PATH]}
              /\ stdout' = Print_(out, "report_saved", <<REPORT_PATH>>)
              /\ pc' = "plot1"
              /\ UNCHANGED <<status, failure>>
           \/ /\ Caught(out, "unexpected", "library", "write")
              /\ UNCHANGED disk
    /\ UNCHANGED <<script, fs, analyzeVars>>
    /\ UNCHANGED <<alignVars, reprojVars, processVars, cvtVars>>

\* one plot of create_visualizations: its values are computed, then savefig writes it
Plot(k, out, next) ==
    \/ /\ plotdata' = plotdata \cup PlotComputes(k)
       /\ disk' = disk \cup {[path |-> PlotPath(k)]}
       /\ stdout' = Print_(out, "saved_plot", <<k>>)
       /\ pc' = next
       /\ UNCHANGED <<status, failure>>
    \/ /\ Caught(out, "unexpected", "library", "plot")
       /\ UNCHANGED <<disk, plotdata>>

\* lines 86-102: plt.style.use and the side-by-side comparison
VizComparison ==
    /\ script = "analyze" /\ pc = "plot1"
    /\ Plot(1, Print_(stdout, "creating_visualizations", <<>>), "plot2")
    /\ UNCHANGED <<script, fs, loadVars, results>>
    /\ UNCHANGED <<alignVars, reprojVars, processVars, cvtVars>>

\* lines 105-115
VizDensityScatter ==
    /\ script = "analyze" /\ pc = "plot2"
    /\ Plot(2, stdout, "plot3")
    /\ UNCHANGED <<script, fs, loadVars, results>>
    /\ UNCHANGED <<alignVars, reprojVars, processVars, cvtVars>>

\* lines 118-128
VizErrorMap ==
    /\ script = "analyze" /\ pc = "plot3"
    /\ Plot(3, stdout, "plot4")
    /\ UNCHANGED <<script, fs, loadVars, results>>
    /\ UNCHANGED <<alignVars, reprojVars, processVars, cvtVars>>

\* lines 131-140
VizErrorHistogram ==
    /\ script = "analyze" /\ pc = "plot4"
    /\ Plot(4, stdout, "success")
    /\ UNCHANGED <<script, fs, loadVars, results>>
    /\ UNCHANGED <<alignVars, reprojVars, processVars, cvtVars>>

\* line 149
AnalyzeSuccess ==
    /\ script = "analyze" /\ pc = "success"
    /\ stdout' = Print_(stdout, "success", <<"analysis_results">>)
    /\ pc' = "done"
    /\ status' = "ok"
    /\ UNCHANGED <<script, failure, disk, fs, analyzeVars>>
    /\ UNCHANGED <<alignVars, reprojVars, processVars, cvtVars>>

NextAnalyze ==
    \/ load_and_prepare_data
    \/ perform_quantitative_analysis
    \/ save_report
    \/ VizComparison
    \/ VizDensityScatter
    \/ VizErrorMap
    \/ VizErrorHistogram
    \/ AnalyzeSuccess

SpecAnalyze == InitAnalyze /\ [][NextAnalyze]_vars

-----------------------------------------------------------------------------
(* any one of the five scripts, run once *)

Init == InitAlignment \/ InitReproject \/ InitProcess \/ InitCvt2gray \/ InitAnalyze

Next == NextAlignment \/ NextReproject \/ NextProcess \/ NextCvt2gray \/ NextAnalyze

Spec == Init /\ [][Next]_vars

-----------------------------------------------------------------------------
(* Alignment Checker *)

AlignChecked == script = "alignment" /\ pc = "done" /\ status = "ok"

\* |a - b| <= 1e-8 + 1e-5 * |b| on each of the six coefficients, in 1e-8 units
WithinTolerance(a, b) ==
    \A i \in 1..6 : 100000 * Abs(a[i] - b[i]) <= 100000 + Abs(b[i])

\* the two values of an attribute are printed exactly when its check is false
ValuesPrinted(match, tagA, a, tagB, b) ==
    IF match
    THEN ~Printed(tagA) /\ ~Printed(tagB)
    ELSE PrintedWith(tagA, <<a>>) /\ PrintedWith(tagB, <<b>>)

AlignReport ==
    /\ PrintedWith("crs_match", <<crs_match>>)
    /\ PrintedWith("transform_match", <<transform_match>>)
    /\ PrintedWith("shape_match", <<shape_match>>)
    /\ ValuesPrinted(crs_match, "sat_crs", fs.sat.crs, "bathy_crs", fs.bathy.crs)
    /\ ValuesPrinted(transform_match, "sat_transform", fs.sat.transform,
                     "bathy_transform", fs.bathy.transform)
    /\ ValuesPrinted(shape_match, "sat_shape", fs.sat.shape, "bathy_shape", fs.bathy.shape)
    /\ Printed("aligned") <=> (crs_match /\ transform_match /\ shape_match)
    /\ Printed("not_aligned") <=> ~(crs_match /\ transform_match /\ shape_match)

\* C1 as stated: each of the three checks is true exactly when that attribute of the two
\* rasters is equal, the differing values are printed, and the verdict is 'aligned'
\* exactly when all three are true.
C1_Original ==
    AlignChecked =>
        /\ crs_match <=> (fs.sat.crs = fs.bathy.crs)
        /\ transform_match <=> (fs.sat.transform = fs.bathy.transform)
        /\ shape_match <=> (fs.sat.shape = fs.bathy.shape)
        /\ AlignReport

\* C1 amended: the CRS and dimension checks are true exactly when the attribute is equal;
\* the transform check is true exactly when every coefficient of the first transform is
\* within 1e-8 + 1e-5 * |b| of the second's coefficient b, so transforms that differ
\* within that tolerance count as matching.  Each check is independent of the other two,
\* a false check prints both values, and the verdict is 'aligned' exactly when all
\* three checks are true.
C1_Amended ==
    AlignChecked =>
        /\ crs_match <=> (fs.sat.crs = fs.bathy.crs)
        /\ transform_match <=> WithinTolerance(fs.sat.transform, fs.bathy.transform)
        /\ shape_match <=> (fs.sat.shape = fs.bathy.shape)
        /\ AlignReport

\* two rasters whose transforms differ within tolerance and whose dimensions differ:
\* only the dimension check is false
C1_Witness ==
    /\ AlignChecked
    /\ fs.sat.crs = fs.bathy.crs
    /\ fs.sat.transform # fs.bathy.transform
    /\ fs.sat.shape # fs.bathy.shape
    /\ crs_match /\ transform_match /\ ~shape_match
    /\ Printed("not_aligned")

-----------------------------------------------------------------------------
(* Visualization Exporter *)

Stretched == script = "process" /\ pc \in {"save", "success"}

\* C2: with the clip range [0, 1500], clip -> rescale to [0, 255] -> truncate to uint8 is
\* monotonic over the samples of the raster, sends every sample below 0 to 0 and every
\* sample at or above 1500 to 255, and gives only values in 0..255; the saved image holds
\* exactly these values, pixel-major.
C2_Rescale ==
    Stretched =>
        /\ \A b \in DOMAIN raw_data : \A p \in BandPixels :
            /\ rgb_data_uint8[b][p] \in 0..255
            /\ raw_data[b][p] < 0 => rgb_data_uint8[b][p] = 0
            /\ raw_data[b][p] >= 1500 => rgb_data_uint8[b][p] = 255
            /\ \A c \in DOMAIN raw_data : \A q \in BandPixels :
                raw_data[b][p] <= raw_data[c][q] => rgb_data_uint8[b][p] <= rgb_data_uint8[c][q]
        /\ \A f \in disk : \A b \in DOMAIN raw_data : \A p \in BandPixels :
            f.data[p][b] = rgb_data_uint8[b][p]

\* a saved image with a sample far below the range, one inside and one far above
C2_Witness ==
    /\ script = "process" /\ pc = "success" /\ disk # {}
    /\ \E p \in BandPixels :
        /\ raw_data[1][p] = -600 /\ rgb_data_uint8[1][p] = 0
        /\ raw_data[2][p] = 899 /\ rgb_data_uint8[2][p] = 152
        /\ raw_data[3][p] = 2100 /\ rgb_data_uint8[3][p] = 255

-----------------------------------------------------------------------------
(* Accuracy Analyzer: the statistics *)

Analysed == script = "analyze" /\ pc = "report"

Scenario == predicted_flat = <<0, 128, 255>> /\ truth_flat = <<0, 5, 10>>

\* |q - r| <= 1/100 for fractions q and r
Approx(q, r) == 100 * Abs(q[1] * r[2] - r[1] * q[2]) <= q[2] * r[2]

ScenarioFit ==
    /\ Approx(results.slope, <<10, 255>>)
    /\ Approx(results.intercept, <<0, 1>>)
    /\ 10000 * results.mse[1] <= results.mse[2]

\* C3 as stated: for predicted = [0,128,255] and truth = [0,5,10] the slope is about
\* 10/255, the intercept about 0, RMSE about 0 (each within 1/100), and Pearson R is 1.0.
C3_Original ==
    (Analysed /\ Scenario) =>
        /\ ScenarioFit
        /\ results.R.defined /\ results.R.sign = 1 /\ results.R.sq = <<1, 1>>

\* C3 amended: for that population the slope is about 10/255, the intercept about 0 and
\* RMSE about 0 (each within 1/100), and Pearson R is approximately 1 but strictly below
\* it (R^2 = 195075/195076), because (128, 5) is not on the line through the other two.
C3_Amended ==
    (Analysed /\ Scenario) =>
        /\ ScenarioFit
        /\ results.R.defined /\ results.R.sign = 1
        /\ results.R.sq = <<195075, 195076>>
        /\ 10000 * results.R.sq[1] >= 9801 * results.R.sq[2]

C3_Witness == Analysed /\ Scenario /\ results.R.defined /\ results.slope = <<3825, 97538>>

\* truth = a * predicted + b for some a and b: equal predictions have equal truths and
\* every three points are collinear
Affine(x, y) ==
    /\ \A i, j \in DOMAIN x : x[i] = x[j] => y[i] = y[j]
    /\ \A i, j, k \in DOMAIN x :
        (y[i] - y[j]) * (x[k] - x[j]) = (y[k] - y[j]) * (x[i] - x[j])

\* the fit is the line through the points i and j, and it leaves no error
RecoversLine(x, y, i, j) ==
    /\ results.slope[1] * (x[j] - x[i]) = results.slope[2] * (y[j] - y[i])
    /\ results.intercept[1] * (x[j] - x[i])
          = results.intercept[2] * (y[i] * (x[j] - x[i]) - (y[j] - y[i]) * x[i])
    /\ results.R.defined /\ results.R.sq = <<1, 1>>
    /\ results.R.sign = Sign((y[j] - y[i]) * (x[j] - x[i]))
    /\ results.mse = <<0, 1>> /\ results.mae = <<0, 1>>
    /\ \A k \in DOMAIN x : results.calibrated[k] = <<y[k], 1>>

\* C4 as stated: for every population with truth = a * predicted + b the function returns
\* Pearson R = 1 (-1 for negative a), slope a and intercept b, and RMSE = MAE = 0.
C4_Original ==
    (Analysed /\ Affine(predicted_flat, truth_flat)) =>
        /\ results.R.defined /\ results.R.sq = <<1, 1>>
        /\ results.mse = <<0, 1>> /\ results.mae = <<0, 1>>
        /\ \A i \in DOMAIN predicted_flat : results.calibrated[i] = <<truth_flat[i], 1>>

\* C4 amended: for every population with truth = a * predicted + b in which the predicted
\* values are not all equal and a is not 0, the exact least-squares results are Pearson
\* R = 1 (-1 for negative a), slope a, intercept b and RMSE = MAE = 0.
C4_Amended ==
    (Analysed /\ Affine(predicted_flat, truth_flat)) =>
        \A i, j \in DOMAIN predicted_flat :
            (predicted_flat[i] # predicted_flat[j] /\ truth_flat[i] # truth_flat[j]) =>
                RecoversLine(predicted_flat, truth_flat, i, j)

\* three points on a line of negative slope
C4_Witness ==
    /\ Analysed
    /\ predicted_flat = <<1, 128, 255>> /\ truth_flat = <<10, 5, 0>>
    /\ results.R.sign = -1 /\ results.slope = <<-5, 127>>

-----------------------------------------------------------------------------
(* Accuracy Analyzer: loading and the pipeline *)

BothReadable ==
    /\ fs.predicted.exists /\ fs.predicted.valid
    /\ fs.truth.exists /\ fs.truth.valid

BadInputs ==
    \/ ~fs.predicted.exists
    \/ ~fs.truth.exists
    \/ BothReadable /\ fs.predicted.shape # fs.truth.shape

\* C5: when an input file is missing or the two rasters differ in shape, the run ends in
\* load_and_prepare_data with the missing-input or shape-mismatch error printed: no
\* statistic is computed, no report or plot is written, no success message is printed.
C5_FailsBeforeStatistics ==
    (script = "analyze" /\ BadInputs) =>
        /\ pc \in {"start", "done"}
        /\ disk = {}
        /\ ~Printed("analysis") /\ ~Printed("success")
        /\ pc = "done" =>
            /\ status = "handled"
            /\ failure \in {"missing_input", "shape_mismatch"}
            /\ Printed("error")

\* two readable rasters of different shapes, the run ended by the shape-mismatch error
C5_Witness ==
    /\ script = "analyze" /\ pc = "done"
    /\ BothReadable /\ fs.predicted.shape # fs.truth.shape
    /\ failure = "shape_mismatch" /\ disk = {}

Loaded == script = "analyze" /\ Printed("loaded")

\* the number of valid pixels at or before p in C order
Rank(p) ==
    Cardinality({q \in DOMAIN mask :
        /\ mask[q]
        /\ \/ q[1] < p[1]
           \/ q[1] = p[1] /\ q[2] <= p[2]})

\* C9: the mask is true exactly at the pixels whose ground truth differs from the declared
\* no-data value (everywhere when none is declared); the two extracted sequences have the
\* number of true mask pixels as their length, and their i-th elements come from the i-th
\* valid pixel.
C9_MaskAndPopulation ==
    Loaded =>
        /\ DOMAIN mask = DOMAIN truth_array
        /\ \A p \in DOMAIN mask :
            mask[p] <=> (fs.truth.nodata = <<>> \/ truth_array[p] # fs.truth.nodata[1])
        /\ Len(predicted_flat) = Cardinality({p \in DOMAIN mask : mask[p]})
        /\ Len(truth_flat) = Len(predicted_flat)
        /\ \A p \in DOMAIN mask :
            mask[p] => /\ predicted_flat[Rank(p)] = predicted_array[p]
                       /\ truth_flat[Rank(p)] = truth_array[p]

\* a two-pixel raster whose first pixel is no-data: the population is the second pixel
C9_Witness ==
    /\ Loaded
    /\ fs.truth.shape = <<1, 2>> /\ fs.truth.nodata = <<-9999>>
    /\ truth_array[<<1, 1>>] = -9999 /\ truth_array[<<1, 2>>] = 5
    /\ predicted_array[<<1, 1>>] = 0 /\ predicted_array[<<1, 2>>] = 128
    /\ predicted_flat = <<128>> /\ truth_flat = <<5>>

-----------------------------------------------------------------------------
(* Resampler/Reprojector *)

\* C6: a written output raster has the reference raster's CRS, transform, width and
\* height, exactly one band, and declares as its no-data value the sentinel -9999 that
\* its unmapped pixels hold.
C6_OutputGrid ==
    script = "reproject" =>
        \A f \in disk :
            /\ f.path = "bathymetry_aligned.tif"
            /\ f.profile.crs = fs.master.crs
            /\ f.profile.transform = fs.master.transform
            /\ f.profile.width = fs.master.width
            /\ f.profile.height = fs.master.height
            /\ f.profile.count = 1
            /\ f.profile.nodata = <<-9999>>
            /\ DOMAIN f.data = (1..fs.master.height) \X (1..fs.master.width)
            /\ \A p \in DOMAIN f.data : p \notin mapped => f.data[p] = f.profile.nodata[1]

\* a three-band reference that declares another no-data value, partly covered by the source
C6_Witness ==
    /\ script = "reproject" /\ disk # {}
    /\ fs.master.count = 3 /\ fs.master.nodata = <<0>>
    /\ fs.master.width = 2 /\ fs.master.height = 1
    /\ mapped = {<<1, 1>>}

-----------------------------------------------------------------------------
(* Template-Aligned Grayscale Converter *)

\* C7: the saved image is as wide as the template has columns and as high as it has rows,
\* whatever the size of the source image.
C7_OutputSize ==
    script = "cvt2gray" =>
        \A f \in disk :
            /\ f.size[1] = fs.template.shape[2]
            /\ f.size[2] = fs.template.shape[1]

\* a source image one wide and two high, saved against a template of one row, two columns
C7_Witness ==
    /\ script = "cvt2gray" /\ disk # {}
    /\ fs.generated.size = <<1, 2>>
    /\ fs.template.shape = <<1, 2>>
    /\ \E f \in disk : f.size = <<2, 1>>

-----------------------------------------------------------------------------
(* all five scripts *)

\* C8: in every script a failure raised by a library call is caught at the top level and
\* printed, so the script never ends with an unhandled exception.
C8_LibraryErrorsCaught ==
    (pc = "done" /\ failure = "library") =>
        /\ status = "handled"
        /\ Printed("error") \/ Printed("unexpected")

Paths == {f.path : f \in disk}

AllPlotData == UNION {PlotComputes(k) : k \in 1..4}

OutputOrder ==
    <<"analysis_report.txt", "comparison_side_by_side.png", "density_scatter_plot.png",
      "error_map.png", "error_histogram.png">>

====
